---- MODULE Spec2Model ----
(***************************************************************************)
(* Model of the preprocessing part of ml_chess_predict.py: the winner      *)
(* one-hot encoding and draw filtering of the notebook (lines 87-106) and  *)
(* the four-stage preprocess_pipeline (lines 129-200).                     *)
(*                                                                         *)
(* A pandas DataFrame is a record  [columns, index, rows] : the ordered    *)
(* column labels, the ordered row labels and, per row, a function from     *)
(* column label to cell.  Python objects live in `heap` (a sequence of     *)
(* tables); a reference is a position in it, so that X.copy() and an       *)
(* in-place assignment db[col] = ... are distinguishable.                  *)
(*                                                                         *)
(* Tables of the model carry no missing entries on input (the notebook's   *)
(* games.csv has none); NaN only arises as the result of 0/0 in normalize. *)
(***************************************************************************)
EXTENDS Integers, Sequences, FiniteSets, TLC

VARIABLES
    pc,      \* position in the notebook script, or "stages" in the stage harness
    heap,    \* Python objects: a sequence of tables, a reference is an index
    chess,   \* the notebook's variable `chess`: a reference into heap
    err,     \* "none" or the exception that stopped the script
    raw,     \* the table as read by pd.read_csv (history, never modified)
    stage,   \* the stage object under test: [kind, columns]
    fitted,  \* history: fit() has been called on the stage object
    out      \* per caller table (1 = training, 2 = held-out): result of transform

vars == <<pc, heap, chess, err, raw, stage, fitted, out>>

\* Bound on the number of rows of the table the notebook loads.
MaxRows == 4

\* Bound on the number of rows of a table handed to a single stage.
MaxStageRows == 3

Range(s) == {s[i] : i \in DOMAIN s}

(***************************************************************************)
(* Cells.  Numbers are exact rationals n/d in lowest terms.                *)
(***************************************************************************)
Str(s) == <<"str", s>>
Bool(b) == <<"bool", b>>
Num(n) == <<"num", n, 1>>
NaN == <<"nan">>
Inf == <<"inf">>

IsNum(c) == c[1] = "num"

RECURSIVE GCD(_, _)
GCD(a, b) == IF b = 0 THEN a ELSE GCD(b, a % b)

Abs(n) == IF n < 0 THEN -n ELSE n

\* n/d with d > 0, reduced
Frac(n, d) ==
    LET g == GCD(Abs(n), d)
    IN  <<"num", n \div g, d \div g>>

Less(a, b) == a[2] * b[3] < b[2] * a[3]

\* val - m, elementwise float subtraction (NaN propagates)
Sub(a, b) ==
    IF ~IsNum(a) \/ ~IsNum(b) THEN NaN
    ELSE Frac(a[2] * b[3] - b[2] * a[3], a[3] * b[3])

\* a / b as numpy divides floats: 0/0 = NaN, x/0 = inf
Div(a, b) ==
    IF ~IsNum(a) \/ ~IsNum(b) THEN NaN
    ELSE IF b[2] = 0 THEN (IF a[2] = 0 THEN NaN ELSE Inf)
    ELSE IF b[2] > 0 THEN Frac(a[2] * b[3], a[3] * b[2])
    ELSE Frac(-(a[2] * b[3]), a[3] * (-b[2]))

(***************************************************************************)
(* Tables (pandas DataFrame)                                               *)
(***************************************************************************)
Column(t, col) == [i \in DOMAIN t.rows |-> t.rows[i][col]]

HasColumn(t, col) == col \in Range(t.columns)

\* db[col] = values : replaces an existing column in place, appends a new one
SetColumn(t, col, values) ==
    [columns |-> IF HasColumn(t, col) THEN t.columns ELSE Append(t.columns, col),
     index   |-> t.index,
     rows    |-> [i \in DOMAIN t.rows |->
                    [c \in Range(t.columns) \cup {col} |->
                        IF c = col THEN values[i] ELSE t.rows[i][c]]]]

\* DataFrame.drop(labels, axis=1): KeyError when a label is not a column
DropColumns(t, labels) ==
    IF \E k \in DOMAIN labels : ~HasColumn(t, labels[k])
    THEN [err |-> "KeyError", table |-> t]
    ELSE [err |-> "none",
          table |->
            LET keep == SelectSeq(t.columns, LAMBDA c : c \notin Range(labels))
            IN  [columns |-> keep,
                 index   |-> t.index,
                 rows    |-> [i \in DOMAIN t.rows |->
                                [c \in Range(keep) |-> t.rows[i][c]]]]]

\* positions of the rows whose index label is not in `labels`, in order
RECURSIVE KeptPositions(_, _, _)
KeptPositions(index, labels, i) ==
    IF i > Len(index) THEN <<>>
    ELSE IF index[i] \in labels THEN KeptPositions(index, labels, i + 1)
    ELSE <<i>> \o KeptPositions(index, labels, i + 1)

\* DataFrame.drop(index_labels): removes the rows carrying those labels
DropRows(t, labels) ==
    LET keep == KeptPositions(t.index, labels, 1)
    IN  [columns |-> t.columns,
         index   |-> [k \in DOMAIN keep |-> t.index[keep[k]]],
         rows    |-> [k \in DOMAIN keep |-> t.rows[keep[k]]]]

\* DataFrame.rename(mapping, axis=1): labels not in the mapping stay, and
\* mapping keys that are not columns are ignored
RenameColumns(t, mapping) ==
    LET new(c) == IF c \in DOMAIN mapping THEN mapping[c] ELSE c
    IN  [columns |-> [k \in DOMAIN t.columns |-> new(t.columns[k])],
         index   |-> t.index,
         rows    |-> [i \in DOMAIN t.rows |->
                        [c \in {new(d) : d \in Range(t.columns)} |->
                            LET d == CHOOSE d \in Range(t.columns) : new(d) = c
                            IN  t.rows[i][d]]]]

(***************************************************************************)
(* Input tables (pd.read_csv('games.csv'), line 71)                        *)
(***************************************************************************)
\* header of games.csv
CsvColumns ==
    <<"id", "rated", "created_at", "last_move_at", "turns", "victory_status",
      "winner", "increment_code", "white_id", "white_rating", "black_id",
      "black_rating", "moves", "opening_eco", "opening_name", "opening_ply">>

\* the reduced schema of the spec's end-to-end scenario
SampleColumns ==
    <<"id", "turns", "winner", "rated", "victory_status", "opening_ply">>

\* the game records input tables are built from
Games ==
    { [winner |-> "white", rated |-> FALSE, victory_status |-> "outoftime", turns |-> 13],
      [winner |-> "black", rated |-> TRUE,  victory_status |-> "resign",    turns |-> 16],
      [winner |-> "white", rated |-> TRUE,  victory_status |-> "mate",      turns |-> 61],
      [winner |-> "draw",  rated |-> TRUE,  victory_status |-> "draw",      turns |-> 16],
      [winner |-> "black", rated |-> FALSE, victory_status |-> "mate",      turns |-> 95] }

GameLists == UNION {[1..n -> Games] : n \in 1..MaxRows}

StageGameLists == UNION {[1..n -> Games] : n \in 1..MaxStageRows}

\* the cell read_csv produces for column c of the i-th record g
CsvCell(g, c, i) ==
    CASE c = "winner"         -> Str(g.winner)
      [] c = "victory_status" -> Str(g.victory_status)
      [] c = "rated"          -> Bool(g.rated)
      [] c = "turns"          -> Num(g.turns)
      [] c = "created_at"     -> Num(i)
      [] c = "last_move_at"   -> Num(i + 1)
      [] c = "white_rating"   -> Num(1500)
      [] c = "black_rating"   -> Num(1400)
      [] c = "opening_ply"    -> Num(5)
      [] OTHER                -> Str(c)

\* read_csv gives the rows a RangeIndex 0..n-1
ReadCsv(games, schema) ==
    [columns |-> schema,
     index   |-> [i \in DOMAIN games |-> i - 1],
     rows    |-> [i \in DOMAIN games |->
                    [c \in Range(schema) |-> CsvCell(games[i], c, i)]]]

(***************************************************************************)
(* cat_encoder (lines 87-95) and the notebook steps of lines 97-106        *)
(***************************************************************************)
\* distinct values of s in order of first appearance
RECURSIVE FirstSeen(_)
FirstSeen(s) ==
    IF s = <<>> THEN <<>>
    ELSE LET h == FirstSeen(SubSeq(s, 1, Len(s) - 1))
             x == s[Len(s)]
         IN  IF x \in Range(h) THEN h ELSE Append(h, x)

PositionOf(s, x) == CHOOSE k \in DOMAIN s : s[k] = x

\* Series.factorize(): codes 0, 1, ... in order of first appearance
Factorize(values) ==
    LET uniques == FirstSeen(values)
    IN  [codes   |-> [i \in DOMAIN values |-> PositionOf(uniques, values[i]) - 1],
         uniques |-> uniques]

\* column labels 0, 1, 2 of pd.DataFrame(one_hot.toarray()), written as strings
OneHotLabels == <<"0", "1", "2">>

\* OneHotEncoder().fit_transform(encoded.reshape(-1, 1)) wrapped in a DataFrame:
\* one column per distinct code, in ascending code order, RangeIndex rows
OneHotFrame(codes) ==
    LET k == Cardinality(Range(codes))
    IN  [columns |-> SubSeq(OneHotLabels, 1, k),
         index   |-> [i \in DOMAIN codes |-> i - 1],
         rows    |-> [i \in DOMAIN codes |->
                        [c \in {OneHotLabels[j] : j \in 1..k} |->
                            IF OneHotLabels[codes[i] + 1] = c THEN Num(1) ELSE Num(0)]]]

\* df.join(other): left join on the index labels
Join(df, other) ==
    LET match(i) == {j \in DOMAIN other.index : other.index[j] = df.index[i]}
    IN  [columns |-> df.columns \o other.columns,
         index   |-> df.index,
         rows    |-> [i \in DOMAIN df.rows |->
                        [c \in Range(df.columns) \cup Range(other.columns) |->
                            IF c \in Range(df.columns) THEN df.rows[i][c]
                            ELSE IF match(i) = {} THEN NaN
                            ELSE other.rows[CHOOSE j \in match(i) : TRUE][c]]]]

cat_encoder(df, var_array) ==
    Join(df, OneHotFrame(Factorize(var_array).codes))

\* the mapping of line 99, keys written as strings
RenameMap == [c \in {"0", "1", "2"} |->
                 CASE c = "0" -> "white_wins" [] c = "1" -> "black_wins" [] OTHER -> "draw"]

\* chess.loc[chess['winner'] == 'draw'].index
DrawLabels(t) == {t.index[i] : i \in {j \in DOMAIN t.rows : t.rows[j]["winner"] = Str("draw")}}

(***************************************************************************)
(* The four stages (lines 129-189)                                         *)
(***************************************************************************)
\* (mutant of Copy) db = X: the same object under a second name
CopyAlias(h, X) == [heap |-> h, ref |-> X]

\* X.copy(): a new object holding the same data
Copy(h, X) == [heap |-> Append(h, h[X]), ref |-> Len(h) + 1]

\* the result of a call: the heap after it, the returned reference, the error
Returned(h, t) == [heap |-> Append(h, t), ret |-> Len(h) + 1, err |-> "none"]
Raised(h, e) == [heap |-> h, ret |-> 0, err |-> e]

\* ColumnDropper.__init__
ColumnDropperInit(corr) ==
    LET base == <<"id", "created_at", "last_move_at", "increment_code", "white_id",
                  "white_rating", "black_id", "black_rating", "moves", "opening_eco",
                  "opening_name", "opening_ply">>
    IN  IF corr THEN base \o <<"white_wins", "black_wins">> ELSE base

\* (mutant of ColumnDropperTransform) the first configured column is skipped
ColumnDropperTransformSkipFirst(columns, h, X) ==
    LET r == DropColumns(h[X], Tail(columns))
    IN  IF r.err # "none" THEN Raised(h, r.err) ELSE Returned(h, r.table)

\* ColumnDropper.transform: X.drop(self.columns, axis=1) returns a new table
ColumnDropperTransform(columns, h, X) ==
    LET r == DropColumns(h[X], columns)
    IN  IF r.err # "none" THEN Raised(h, r.err) ELSE Returned(h, r.table)

\* CatEncoder.__init__
CatEncoderInit == <<"winner", "rated", "victory_status">>

\* Python's order on the strings of the categorical columns
StrOrder == <<"black", "draw", "mate", "outoftime", "resign", "white">>

\* a < b for two cells of one column (str, bool or number)
Before(a, b) ==
    CASE a[1] = "str"  -> PositionOf(StrOrder, a[2]) < PositionOf(StrOrder, b[2])
      [] a[1] = "bool" -> ~a[2] /\ b[2]
      [] OTHER         -> Less(a, b)

\* (mutant of LabelEncoderFitTransform) codes in order of first appearance
LabelEncoderFirstSeen(values) ==
    [i \in DOMAIN values |-> Num(Factorize(values).codes[i])]

\* LabelEncoder().fit_transform(values): classes_ = np.unique(values), the
\* sorted distinct values; each value is replaced by its position in classes_
LabelEncoderFitTransform(values) ==
    [i \in DOMAIN values |->
        Num(Cardinality({u \in Range(values) : Before(u, values[i])}))]

\* the loop of CatEncoder.transform over self.cats[k..], on the table db
RECURSIVE EncodeCats(_, _, _)
EncodeCats(db, cats, k) ==
    IF k > Len(cats) THEN [err |-> "none", table |-> db]
    ELSE IF ~HasColumn(db, cats[k]) THEN [err |-> "KeyError", table |-> db]
    ELSE EncodeCats(SetColumn(db, cats[k], LabelEncoderFitTransform(Column(db, cats[k]))),
                    cats, k + 1)

\* CatEncoder.transform: a fresh LabelEncoder is fitted inside every call
CatEncoderTransform(cats, h, X) ==
    LET c == Copy(h, X)
        r == EncodeCats(c.heap[c.ref], cats, 1)
        h2 == [c.heap EXCEPT ![c.ref] = r.table]
    IN  [heap |-> h2,
         ret  |-> IF r.err = "none" THEN c.ref ELSE 0,
         err  |-> r.err]

\* the float a numeric cell becomes in the array KNNImputer works on
ToFloat(c) == IF c[1] = "bool" THEN (IF c[2] THEN Num(1) ELSE Num(0)) ELSE c

\* MissValImputer.transform: KNNImputer rejects non-numeric data; a table
\* without missing entries keeps its values (converted to float)
MissValImputerTransform(h, X) ==
    LET c == Copy(h, X)
        db == c.heap[c.ref]
    IN  IF \E i \in DOMAIN db.rows : \E col \in Range(db.columns) : db.rows[i][col][1] = "str"
        THEN [heap |-> c.heap, ret |-> 0, err |-> "ValueError"]
        ELSE [heap |-> [c.heap EXCEPT ![c.ref] =
                          [db EXCEPT !.rows =
                              [i \in DOMAIN db.rows |->
                                  [col \in Range(db.columns) |-> ToFloat(db.rows[i][col])]]]],
              ret  |-> c.ref,
              err  |-> "none"]

\* np.min / np.max of a Series: missing entries are skipped
Present(val) == {val[i] : i \in {j \in DOMAIN val : IsNum(val[j])}}
SeriesMin(val) ==
    IF Present(val) = {} THEN NaN
    ELSE CHOOSE m \in Present(val) : \A v \in Present(val) : ~Less(v, m)
SeriesMax(val) ==
    IF Present(val) = {} THEN NaN
    ELSE CHOOSE m \in Present(val) : \A v \in Present(val) : ~Less(m, v)

\* (mutant of normalize) the minimum is not subtracted from the divisor
normalizeByMax(val) ==
    [i \in DOMAIN val |-> Div(Sub(val[i], SeriesMin(val)), SeriesMax(val))]

\* normalize (lines 171-173)
normalize(val) ==
    [i \in DOMAIN val |->
        Div(Sub(val[i], SeriesMin(val)), Sub(SeriesMax(val), SeriesMin(val)))]

\* Normalizer.__init__: None and the empty list both select the default
NormalizerInit(columns) == IF columns # <<>> THEN columns ELSE <<"turns">>

\* the loop of Normalizer.transform over self.columns[k..]
RECURSIVE NormalizeColumns(_, _, _)
NormalizeColumns(db, columns, k) ==
    IF k > Len(columns) THEN [err |-> "none", table |-> db]
    ELSE IF ~HasColumn(db, columns[k]) THEN [err |-> "KeyError", table |-> db]
    ELSE IF \E i \in DOMAIN db.rows : db.rows[i][columns[k]][1] \in {"str", "bool"}
         THEN [err |-> "TypeError", table |-> db]
    ELSE NormalizeColumns(SetColumn(db, columns[k], normalize(Column(db, columns[k]))),
                          columns, k + 1)

\* Normalizer.transform
NormalizerTransform(columns, h, X) ==
    LET c == Copy(h, X)
        r == NormalizeColumns(c.heap[c.ref], columns, 1)
        h2 == [c.heap EXCEPT ![c.ref] = r.table]
    IN  [heap |-> h2,
         ret  |-> IF r.err = "none" THEN c.ref ELSE 0,
         err  |-> r.err]

\* stage.transform(X) for a stage object s = [kind, columns]
StageTransform(s, h, X) ==
    CASE s.kind = "ColumnDropper" -> ColumnDropperTransform(s.columns, h, X)
      [] s.kind = "CatEncoder"    -> CatEncoderTransform(s.columns, h, X)
      [] s.kind = "MissValImputer" -> MissValImputerTransform(h, X)
      [] OTHER                    -> NormalizerTransform(s.columns, h, X)

\* (mutant of PipelineSteps) the dropper is built with corr=False
PipelineStepsNoCorr ==
    << [kind |-> "ColumnDropper",  columns |-> ColumnDropperInit(FALSE)],
       [kind |-> "CatEncoder",     columns |-> CatEncoderInit],
       [kind |-> "MissValImputer", columns |-> <<>>],
       [kind |-> "Normalizer",     columns |-> NormalizerInit(<<>>)] >>

\* preprocess_pipeline (lines 191-196)
PipelineSteps ==
    << [kind |-> "ColumnDropper",  columns |-> ColumnDropperInit(TRUE)],
       [kind |-> "CatEncoder",     columns |-> CatEncoderInit],
       [kind |-> "MissValImputer", columns |-> <<>>],
       [kind |-> "Normalizer",     columns |-> NormalizerInit(<<>>)] >>

\* Pipeline.fit_transform: each step's fit (which stores nothing) and then
\* its transform, the output of a step being the input of the next
RECURSIVE RunSteps(_, _, _, _)
RunSteps(steps, k, h, X) ==
    IF k > Len(steps) THEN [heap |-> h, ret |-> X, err |-> "none"]
    ELSE LET r == StageTransform(steps[k], h, X)
         IN  IF r.err # "none" THEN r
             ELSE RunSteps(steps, k + 1, r.heap, r.ret)

PipelineFitTransform(h, X) == RunSteps(PipelineSteps, 1, h, X)

\* transform of the object under test: one stage, or the whole pipeline
\* (Pipeline.transform calls the transform of every step in turn)
TransformOf(s, h, X) ==
    IF s.kind = "Pipeline" THEN RunSteps(PipelineSteps, 1, h, X)
    ELSE StageTransform(s, h, X)

(***************************************************************************)
(* The notebook script, lines 71-200                                       *)
(***************************************************************************)
EmptyTable == [columns |-> <<>>, index |-> <<>>, rows |-> <<>>]
NotCalled == [called |-> FALSE, wasFitted |-> FALSE, err |-> "none", table |-> EmptyTable]

Init ==
    \E games \in GameLists, schema \in {CsvColumns, SampleColumns} :
        /\ raw = ReadCsv(games, schema)
        /\ heap = <<raw>>
        /\ chess = 1
        /\ pc = "cat_encoder"
        /\ err = "none"
        /\ stage = [kind |-> "Pipeline", columns |-> <<>>]
        /\ fitted = FALSE
        /\ out = [X \in 1..2 |-> NotCalled]

\* line 97: chess = cat_encoder(chess, chess['winner'])
EncodeWinner ==
    /\ pc = "cat_encoder"
    /\ heap' = <<cat_encoder(heap[chess], Column(heap[chess], "winner"))>>
    /\ pc' = "rename"
    /\ UNCHANGED <<chess, err, raw, stage, fitted, out>>

\* line 99: chess.rename({0: 'white_wins', 1: 'black_wins', 2: 'draw'}, axis=1, inplace=True)
RenameIndicators ==
    /\ pc = "rename"
    /\ heap' = [heap EXCEPT ![chess] = RenameColumns(heap[chess], RenameMap)]
    /\ pc' = "drop_draws"
    /\ UNCHANGED <<chess, err, raw, stage, fitted, out>>

\* lines 103-104: chess.drop(draws.index, inplace=True)
DropDraws ==
    /\ pc = "drop_draws"
    /\ heap' = [heap EXCEPT ![chess] = DropRows(heap[chess], DrawLabels(heap[chess]))]
    /\ pc' = "drop_draw_column"
    /\ UNCHANGED <<chess, err, raw, stage, fitted, out>>

\* line 106: chess.drop(['draw'], axis=1, inplace=True)
DropDrawColumn ==
    /\ pc = "drop_draw_column"
    /\ LET r == DropColumns(heap[chess], <<"draw">>)
       IN  IF r.err # "none"
           THEN /\ pc' = "error"
                /\ err' = r.err
                /\ heap' = heap
           ELSE /\ pc' = "fit_transform"
                /\ err' = err
                /\ heap' = [heap EXCEPT ![chess] = r.table]
    /\ UNCHANGED <<chess, raw, stage, fitted, out>>

\* line 200: chess = preprocess_pipeline.fit_transform(chess)
\* (lines 108-114 only read chess: a split and a correlation matrix)
FitTransform ==
    /\ pc = "fit_transform"
    /\ LET r == PipelineFitTransform(heap, chess)
       IN  /\ heap' = r.heap
           /\ fitted' = TRUE
           /\ IF r.err # "none"
              THEN pc' = "error" /\ err' = r.err /\ chess' = chess
              ELSE pc' = "done" /\ err' = err /\ chess' = r.ret
    /\ UNCHANGED <<raw, stage, out>>

Next == EncodeWinner \/ RenameIndicators \/ DropDraws \/ DropDrawColumn \/ FitTransform

Spec == Init /\ [][Next]_vars

(***************************************************************************)
(* The stages called one at a time on a training and a held-out table      *)
(***************************************************************************)
\* the stage objects the constructors build
NormalizerArgs == {<<>>, <<"turns">>, <<"turns", "created_at">>}

StageObjects ==
    {[kind |-> "ColumnDropper", columns |-> ColumnDropperInit(corr)] : corr \in BOOLEAN}
    \cup {[kind |-> "CatEncoder", columns |-> CatEncoderInit]}
    \cup {[kind |-> "MissValImputer", columns |-> <<>>]}
    \cup {[kind |-> "Normalizer", columns |-> NormalizerInit(a)] : a \in NormalizerArgs}
    \cup {[kind |-> "Pipeline", columns |-> <<>>]}

\* the table of line 99: the csv rows with the renamed indicator columns
Encoded(games) ==
    RenameColumns(cat_encoder(ReadCsv(games, CsvColumns),
                              Column(ReadCsv(games, CsvColumns), "winner")),
                  RenameMap)

\* rows from..to of a table, as train_test_split hands out a part of the rows
RowSlice(t, from, to) ==
    [columns |-> t.columns,
     index   |-> SubSeq(t.index, from, to),
     rows    |-> SubSeq(t.rows, from, to)]

\* the table of line 99 after ColumnDropper(corr=False) and CatEncoder: the
\* all-numeric table a MissValImputer accepts
Numeric(games) ==
    LET d == ColumnDropperTransform(ColumnDropperInit(FALSE), <<Encoded(games)>>, 1)
        e == CatEncoderTransform(CatEncoderInit, d.heap, d.ret)
    IN  e.heap[e.ret]

\* the table a stage object is called on: the imputer works on numbers only
StageInput(s, games) ==
    IF s.kind = "MissValImputer" THEN Numeric(games) ELSE Encoded(games)

\* one stage object and one table
InitStages ==
    \E games \in StageGameLists, s \in StageObjects :
        /\ raw = ReadCsv(games, CsvColumns)
        /\ heap = <<StageInput(s, games)>>
        /\ chess = 0
        /\ pc = "stages"
        /\ err = "none"
        /\ stage = s
        /\ fitted = FALSE
        /\ out = [X \in 1..2 |-> NotCalled]

\* a CatEncoder, and a table split into a training and a held-out part
InitHoldout ==
    \E games \in StageGameLists :
      \E k \in 1..(Len(games) - 1) :
        /\ raw = ReadCsv(games, CsvColumns)
        /\ heap = <<RowSlice(Encoded(games), 1, k),
                    RowSlice(Encoded(games), k + 1, Len(games))>>
        /\ chess = 0
        /\ pc = "stages"
        /\ err = "none"
        /\ stage = [kind |-> "CatEncoder", columns |-> CatEncoderInit]
        /\ fitted = FALSE
        /\ out = [X \in 1..2 |-> NotCalled]

\* stage.fit(X): every one of the four fit methods is `return self`
StageFit ==
    /\ pc = "stages"
    /\ \E X \in DOMAIN heap : fitted' = TRUE
    /\ UNCHANGED <<pc, heap, chess, err, raw, stage, out>>

\* stage.transform(X) on one of the caller's tables; the caller keeps its
\* own objects and the table returned
StageTransformCall ==
    /\ pc = "stages"
    /\ \E X \in DOMAIN heap :
         LET r == TransformOf(stage, heap, X)
         IN  /\ heap' = SubSeq(r.heap, 1, Len(heap))
             /\ out' = [out EXCEPT ![X] =
                          [called    |-> TRUE,
                           wasFitted |-> fitted,
                           err       |-> r.err,
                           table     |-> IF r.err = "none" THEN r.heap[r.ret]
                                         ELSE EmptyTable]]
    /\ UNCHANGED <<pc, chess, err, raw, stage, fitted>>

NextStages == StageFit \/ StageTransformCall

SpecStages == InitStages /\ [][NextStages]_vars

SpecHoldout == InitHoldout /\ [][NextStages]_vars

(***************************************************************************)
(* Properties                                                              *)
(***************************************************************************)
\* the twelve names ColumnDropper always drops, as the specification lists them
FixedDropped ==
    {"id", "created_at", "last_move_at", "increment_code", "white_id", "white_rating",
     "black_id", "black_rating", "moves", "opening_eco", "opening_name", "opening_ply"}

\* the column labels of res are labels of src, in the relative order of src
SameRelativeOrder(res, src) ==
    \A a, b \in DOMAIN res :
        a < b => PositionOf(src, res[a]) < PositionOf(src, res[b])

\* C1: when the input table holds every configured column, ColumnDropper.transform
\* returns a table whose columns are the input's columns minus exactly the
\* configured ones (the 12 fixed names, plus white_wins and black_wins with
\* corr=True), in the same relative order, with the same rows and the same
\* value in every remaining column.
C1_DropperFrame ==
    \A X \in DOMAIN heap :
        ( /\ stage.kind = "ColumnDropper"
          /\ out[X].called
          /\ \A c \in Range(stage.columns) : HasColumn(heap[X], c) )
        => LET src == heap[X]
               res == out[X].table
           IN  /\ out[X].err = "none"
               /\ Range(stage.columns) \in
                     {FixedDropped, FixedDropped \cup {"white_wins", "black_wins"}}
               /\ Range(res.columns) = Range(src.columns) \ Range(stage.columns)
               /\ Len(res.columns) = Cardinality(Range(res.columns))
               /\ SameRelativeOrder(res.columns, src.columns)
               /\ Len(res.rows) = Len(src.rows)
               /\ res.index = src.index
               /\ \A i \in DOMAIN res.rows :
                    /\ DOMAIN res.rows[i] = Range(res.columns)
                    /\ \A c \in Range(res.columns) : res.rows[i][c] = src.rows[i][c]

\* C1 witness: a corr=True dropper has transformed a table of several rows
\* that holds all fourteen configured columns
C1_Witness ==
    \E X \in DOMAIN heap :
        /\ stage.kind = "ColumnDropper"
        /\ "white_wins" \in Range(stage.columns)
        /\ out[X].called
        /\ out[X].err = "none"
        /\ Len(out[X].table.rows) >= 2
        /\ HasColumn(heap[X], "draw")

\* the integers of a column of integer cells
IntsOf(val) == {val[i][2] : i \in DOMAIN val}
MinOf(S) == CHOOSE m \in S : \A v \in S : m <= v
MaxOf(S) == CHOOSE m \in S : \A v \in S : v <= m

\* a configured column that transform can rescale: present, and all integers
Rescalable(t, col) ==
    /\ HasColumn(t, col)
    /\ \A i \in DOMAIN t.rows : IsNum(t.rows[i][col]) /\ t.rows[i][col][3] = 1

Degenerate(t, col) == Cardinality(IntsOf(Column(t, col))) = 1

\* C5: for every configured Normalizer column whose values are not all equal,
\* after Normalizer.transform every value lies in [0,1], the minimum is exactly
\* 0 and the maximum exactly 1, each value equals
\* (value - column_min) / (column_max - column_min), and the columns that are
\* not configured are unchanged.
C5_MinMaxScaling ==
    \A X \in DOMAIN heap :
        ( /\ stage.kind = "Normalizer"
          /\ out[X].called
          /\ \A col \in Range(stage.columns) : Rescalable(heap[X], col) )
        => LET src == heap[X]
               res == out[X].table
           IN  /\ out[X].err = "none"
               /\ res.columns = src.columns
               /\ res.index = src.index
               /\ \A i \in DOMAIN src.rows :
                    \A c \in Range(src.columns) \ Range(stage.columns) :
                        res.rows[i][c] = src.rows[i][c]
               /\ \A col \in Range(stage.columns) :
                    ~Degenerate(src, col) =>
                      LET lo == MinOf(IntsOf(Column(src, col)))
                          hi == MaxOf(IntsOf(Column(src, col)))
                      IN  /\ \A i \in DOMAIN src.rows :
                                LET r == res.rows[i][col]
                                IN  /\ IsNum(r)
                                    /\ r[3] > 0
                                    /\ 0 <= r[2] /\ r[2] <= r[3]
                                    /\ r[2] * (hi - lo) = (src.rows[i][col][2] - lo) * r[3]
                          /\ \E i \in DOMAIN src.rows : res.rows[i][col] = Num(0)
                          /\ \E i \in DOMAIN src.rows : res.rows[i][col] = Num(1)

\* C5 witness: a Normalizer has rescaled a turns column to 0, 1 and a value
\* strictly between them
C5_Witness ==
    \E X \in DOMAIN heap :
        /\ stage.kind = "Normalizer"
        /\ out[X].called
        /\ out[X].err = "none"
        /\ ~Degenerate(heap[X], "turns")
        /\ \E i \in DOMAIN out[X].table.rows :
              LET r == out[X].table.rows[i]["turns"]
              IN  IsNum(r) /\ 0 < r[2] /\ r[2] < r[3]

\* C6: when a configured Normalizer column is degenerate (its maximum equals
\* its minimum, a single-row table included), Normalizer.transform fails with
\* DegenerateColumnError and returns no table.
C6_DegenerateColumnRaises ==
    \A X \in DOMAIN heap :
        ( /\ stage.kind = "Normalizer"
          /\ out[X].called
          /\ \A col \in Range(stage.columns) : Rescalable(heap[X], col)
          /\ \E col \in Range(stage.columns) : Degenerate(heap[X], col) )
        => /\ out[X].err = "DegenerateColumnError"
           /\ out[X].table = EmptyTable

\* C7: a transform call made while the stage or the pipeline is still Unfit
\* (fit has never been called on it) fails with NotFittedError and produces no
\* table.
C7_UnfitTransformRaises ==
    \A X \in DOMAIN heap :
        (out[X].called /\ ~out[X].wasFitted)
        => /\ out[X].err = "NotFittedError"
           /\ out[X].table = EmptyTable

\* C9: a transform call of any of the four stages, and of the whole pipeline,
\* leaves every table object the caller holds with the same columns, rows and
\* values, and leaves the stage's configured column list as it was.
C9_CallerTablesUntouched == [][heap' = heap /\ stage' = stage]_vars

\* C9 witness: a stage that writes into its working table (CatEncoder,
\* Normalizer, or the pipeline they are part of) has returned a table that
\* differs from the caller's
C9_Witness ==
    \E X \in DOMAIN heap :
        /\ stage.kind \in {"CatEncoder", "Normalizer", "Pipeline"}
        /\ out[X].called
        /\ out[X].err = "none"
        /\ out[X].table # heap[X]

\* the integer codes of a column of an encoded table
CodesOf(val) == {val[i][2] : i \in DOMAIN val}

\* C3 (as stated): for each of winner, rated and victory_status the
\* Categorical Encoder gives every value the code of its first appearance in
\* the column: the first distinct value 0, the next new value 1, and so on.
C3_FirstAppearanceCodes ==
    \A X \in DOMAIN heap :
        (stage.kind = "CatEncoder" /\ out[X].called /\ out[X].err = "none")
        => \A cat \in Range(stage.columns) :
              LET vin == Column(heap[X], cat)
                  vout == Column(out[X].table, cat)
              IN  \A i \in DOMAIN vin :
                     vout[i] = Num(PositionOf(FirstSeen(vin), vin[i]) - 1)

\* C3 (amended): for each of winner, rated and victory_status the Categorical
\* Encoder gives every value its rank among the sorted distinct values of the
\* column in the table being transformed: equal values get equal codes, a
\* smaller value gets a smaller code, and the codes are exactly 0..k-1 for k
\* distinct values, whatever the order of the rows.
C3_SortedRankCodes ==
    \A X \in DOMAIN heap :
        (stage.kind = "CatEncoder" /\ out[X].called)
        => /\ out[X].err = "none"
           /\ \A cat \in {"winner", "rated", "victory_status"} :
                LET vin == Column(heap[X], cat)
                    vout == Column(out[X].table, cat)
                IN  /\ \A i \in DOMAIN vin : IsNum(vout[i]) /\ vout[i][3] = 1
                    /\ \A i, j \in DOMAIN vin :
                          /\ (vin[i] = vin[j]) <=> (vout[i] = vout[j])
                          /\ Before(vin[i], vin[j]) <=> (vout[i][2] < vout[j][2])
                    /\ CodesOf(vout) = 0..(Cardinality(Range(vin)) - 1)

\* C3 witness: a CatEncoder has encoded a table whose winner column starts
\* with white and then black, so first appearance and sorted order disagree
C3_Witness ==
    \E X \in DOMAIN heap :
        /\ stage.kind = "CatEncoder"
        /\ out[X].called
        /\ out[X].err = "none"
        /\ Len(heap[X].rows) >= 2
        /\ heap[X].rows[1]["winner"] = Str("white")
        /\ heap[X].rows[2]["winner"] = Str("black")
        /\ out[X].table.rows[1]["winner"] = Num(1)

\* C4: after the Categorical Encoder was fitted and applied to the training
\* table (1), a transform of the held-out table (2) either raises, or gives
\* every category seen in training the code it had there and every unseen
\* category a code that no training category has.
C4_HeldOutCodesConsistent ==
    ( /\ stage.kind = "CatEncoder"
      /\ Len(heap) = 2
      /\ out[1].called /\ out[1].wasFitted /\ out[1].err = "none"
      /\ out[2].called /\ out[2].wasFitted )
    => \/ out[2].err # "none"
       \/ \A cat \in Range(stage.columns) :
             LET tr == Column(heap[1], cat)
                 trc == Column(out[1].table, cat)
                 ho == Column(heap[2], cat)
                 hoc == Column(out[2].table, cat)
             IN  \A j \in DOMAIN ho :
                    IF ho[j] \in Range(tr)
                    THEN hoc[j] = trc[PositionOf(tr, ho[j])]
                    ELSE hoc[j] \notin Range(trc)

\* the winner column of the loaded table takes the values white, black and draw
ThreeWinners(t) ==
    {t.rows[i]["winner"] : i \in DOMAIN t.rows} = {Str("white"), Str("black"), Str("draw")}

\* positions of the loaded rows whose winner is not draw, in order
NonDraws(t) ==
    SelectSeq([i \in DOMAIN t.rows |-> i], LAMBDA i : t.rows[i]["winner"] # Str("draw"))

\* C10: after cat_encoder and the rename, for every ordering of the rows,
\* white_wins is 1 exactly on the rows whose winner is white, black_wins is 1
\* exactly on the rows whose winner is black and draw is 1 exactly on the rows
\* whose winner is draw, each indicator on the row it was computed from.
C10_IndicatorsNameTheWinner ==
    (pc = "drop_draws" /\ ThreeWinners(raw))
    => LET t == heap[chess]
       IN  /\ Len(t.rows) = Len(raw.rows)
           /\ t.index = raw.index
           /\ \A i \in DOMAIN t.rows :
                /\ \A c \in Range(raw.columns) : t.rows[i][c] = raw.rows[i][c]
                /\ (t.rows[i]["white_wins"] = Num(1)) <=> (raw.rows[i]["winner"] = Str("white"))
                /\ (t.rows[i]["black_wins"] = Num(1)) <=> (raw.rows[i]["winner"] = Str("black"))
                /\ (t.rows[i]["draw"] = Num(1)) <=> (raw.rows[i]["winner"] = Str("draw"))

\* C2: after cat_encoder, the rename and the draw filtering, the table holds
\* exactly the loaded rows whose winner is not draw, in their original order,
\* it has no draw column, and in every remaining row exactly one of white_wins
\* and black_wins equals 1.
C2_FilteredRowsOneIndicator ==
    (pc = "fit_transform" /\ ThreeWinners(raw))
    => LET t == heap[chess]
           keep == NonDraws(raw)
       IN  /\ Len(t.rows) = Len(keep)
           /\ ~HasColumn(t, "draw")
           /\ \A k \in DOMAIN t.rows :
                /\ t.index[k] = raw.index[keep[k]]
                /\ \A c \in Range(raw.columns) : t.rows[k][c] = raw.rows[keep[k]][c]
                /\ (t.rows[k]["white_wins"] = Num(1)) # (t.rows[k]["black_wins"] = Num(1))

\* a cell is a number of the closed interval [0,1]
InUnitInterval(r) == IsNum(r) /\ r[3] > 0 /\ 0 <= r[2] /\ r[2] <= r[3]

\* the columns of t that indicate the winner
WinnerColumns(t) == Range(t.columns) \cap {"winner", "white_wins", "black_wins", "draw"}

\* the result the end-to-end scenario describes, for the loaded table t0
EndToEndResult(t, t0) ==
    /\ Len(t.rows) = Len(NonDraws(t0))
    /\ ~HasColumn(t, "id")
    /\ ~HasColumn(t, "opening_ply")
    /\ HasColumn(t, "turns")
    /\ \A i \in DOMAIN t.rows : InUnitInterval(t.rows[i]["turns"])
    /\ \E w \in WinnerColumns(t) :
          /\ WinnerColumns(t) = {w}
          /\ \A i \in DOMAIN t.rows : t.rows[i][w] \in {Num(0), Num(1)}

TurnsVary(t0) ==
    Cardinality({t0.rows[NonDraws(t0)[k]]["turns"] : k \in DOMAIN NonDraws(t0)}) > 1

====
